---- MODULE Spec2Model ----
(***************************************************************************)
(* Model of app.py: the video-to-frames job engine.                        *)
(*                                                                         *)
(*   process()        the submit handler (one request per job slot)        *)
(*   process_video()  the job's worker thread, one step per statement that *)
(*                    touches shared state (the task dict, the files)      *)
(*   progress()       the poll handler, one step per field it reads        *)
(*                                                                         *)
(* The task dictionary is shared between the worker thread and the request *)
(* handlers without any lock, so every write and every read of a field is  *)
(* a step of its own.  Statements that only touch the worker's locals are  *)
(* folded into the step that follows them.                                 *)
(***************************************************************************)
EXTENDS Integers, Sequences, FiniteSets, TLC

\* ------------------------------------------------------------------ bounds
\* Largest frame count a source reports (CAP_PROP_FRAME_COUNT).
MaxTotal == 2
\* Largest number of frames a source actually delivers.
MaxFrames == 3
\* Largest frame rate a source reports (CAP_PROP_FPS), in frames per second.
MaxFps == 2

\* Largest number of frames a source delivers when several jobs run at once.
MaxJobFrames == 2

\* The largest frame side and target width of the resize step's inputs.
MaxDim == 5

\* Job identifiers (uuid4 strings in the code): opaque and pairwise distinct.
Jobs == {"j1", "j2"}

\* ------------------------------------------------------------- constants
ALLOWED_EXTENSIONS == {"mp4", "mov", "avi"}
OutputFormats == {"png", "jpg", "webp"}

NoTask == [status |-> "absent"]
None == "None"

VARIABLES
    processing_tasks, \* the registry: job id -> task dict (NoTask: no entry)
    uploads,          \* job ids whose uploaded file exists in UPLOAD_FOLDER
    outputs,          \* job id -> the files written to its output directory
    spc,              \* job id -> position of its submit handler
    req,              \* job id -> the request the handler was called with
    response,         \* job id -> HTTP status returned by process() (0: none)
    wpc,              \* job id -> position of its worker thread
    cap,              \* job id -> state of the worker's cv2.VideoCapture
    loc,              \* job id -> the worker's local variables
    poll,             \* the poll handler's position and what it has read
    hist,             \* job id -> every field combination the task has held
    dl,               \* the download handler's position and what it returned
    img               \* a frame going through the resize step

vars == <<processing_tasks, uploads, outputs, spc, req, response,
          wpc, cap, loc, poll, hist, dl, img>>

\* ------------------------------------------------------------- messages
\* task['message'] is a formatted string; the model keeps what it is built
\* from: the kind of text, and the numbers or the exception it embeds.
Msg(kind, cause, n, p) == [kind |-> kind, cause |-> cause, n |-> n, p |-> p]
Absent == Msg("absent", "", 0, 0)
MsgInit == Msg("init", "", 0, 0)
MsgVideo(total, skip) == Msg("video", "", total, skip)
MsgExtract(extracted, progress) == Msg("extract", "", extracted, progress)
MsgDone(extracted) == Msg("done", "", extracted, 0)
MsgError(cause) == Msg("error", cause, 0, 0)
MsgDefault == Msg("En cours...", "", 0, 0)

\* -------------------------------------------------------------- requests
\* A file name is a sequence of tokens; "." is the dot, every other token is
\* a dot-free run of characters.  interval is in half seconds (interval = 2
\* is 1.0 s), so that fps * interval is computed exactly.  parses: whether
\* int(target_width) and float(interval) succeed on the form's strings; the
\* two numbers mean nothing when they do not.
Request(has_file, filename, target_width, interval, output_format, unblur) ==
    [has_file |-> has_file, filename |-> filename,
     target_width |-> target_width, interval |-> interval,
     output_format |-> output_format, unblur_option |-> unblur,
     parses |-> TRUE]

\* The same request with a target_width or interval that is not a number.
NotANumber(r) == [r EXCEPT !.parses = FALSE, !.target_width = 0, !.interval = 0]

NoRequest == Request(FALSE, <<>>, 0, 0, "", FALSE)

ValidRequests ==
    { Request(TRUE, <<"a", ".", "mp4">>, 512, 2, "png", FALSE),
      Request(TRUE, <<"b", ".", "MOV">>, 256, 1, "JPG", TRUE),
      Request(TRUE, <<"c", ".", "d", ".", "avi">>, 512, 4, "webp", FALSE) }

InvalidRequests ==
    { Request(FALSE, <<>>, 512, 2, "png", FALSE),
      Request(TRUE, <<>>, 512, 2, "png", FALSE),
      Request(TRUE, <<"a", ".", "txt">>, 512, 2, "png", FALSE),
      Request(TRUE, <<"mp4">>, 512, 2, "png", FALSE),
      Request(TRUE, <<"a", ".", "mp4">>, 512, 2, "gif", FALSE),
      Request(TRUE, <<"a", ".", "mp4">>, 0, 2, "png", FALSE),
      Request(TRUE, <<"a", ".", "mp4">>, 512, 0, "png", FALSE),
      Request(TRUE, <<"a", ".", "mp4">>, 512, -1, "png", FALSE),
      NotANumber(Request(TRUE, <<"a", ".", "mp4">>, 0, 0, "png", FALSE)),
      NotANumber(Request(TRUE, <<"a", ".", "mp4">>, 0, 0, "gif", FALSE)),
      NotANumber(Request(TRUE, <<"a", ".", "exe">>, 0, 0, "png", FALSE)) }

Requests == ValidRequests \cup InvalidRequests

\* str.lower() on the tokens the requests use.
Lower(s) ==
    CASE s = "MOV" -> "mov"
      [] s = "MP4" -> "mp4"
      [] s = "AVI" -> "avi"
      [] s = "JPG" -> "jpg"
      [] s = "PNG" -> "png"
      [] s = "WEBP" -> "webp"
      [] OTHER -> s

\* Positions of the dots of a file name.
Dots(filename) == { i \in 1..Len(filename) : filename[i] = "." }

Max(S) == CHOOSE x \in S : \A y \in S : y <= x

\* filename.rsplit('.', 1)[1]: the tokens after the last dot.
Extension(filename) ==
    SubSeq(filename, Max(Dots(filename)) + 1, Len(filename))

allowed_file(filename) ==
    /\ Dots(filename) # {}
    /\ \E e \in ALLOWED_EXTENSIONS :
          LET ext == Extension(filename)
          IN  Len(ext) = 1 /\ Lower(ext[1]) = e

\* The result of process() on a request, before it touches anything:
\* 400 for a rejected request, 500 when int() or float() raises at lines
\* 169-170 (caught at line 214), 0 when the request goes on to be saved.
Validation(r) ==
    IF ~r.has_file THEN 400
    ELSE IF r.filename = <<>> THEN 400
    ELSE IF ~allowed_file(r.filename) THEN 400
    ELSE IF ~r.parses THEN 500
    ELSE IF Lower(r.output_format) \notin OutputFormats THEN 400
    ELSE IF r.target_width <= 0 \/ r.interval <= 0 THEN 400
    ELSE 0

\* ----------------------------------------------------------------- tasks
NewTask ==
    [status |-> "pending", progress |-> 0, frames_count |-> 0,
     total_frames |-> 0, error_message |-> None, message |-> Absent]

\* What progress() puts in its answer, read at one instant.
Snapshot(t) ==
    [status |-> t.status, progress |-> t.progress,
     message |-> IF t.message = Absent THEN MsgDefault ELSE t.message,
     frames_count |-> t.frames_count, total_frames |-> t.total_frames]

\* A write to the task dict of job j; hist records the combination reached.
SetTask(j, t) ==
    /\ processing_tasks' = [processing_tasks EXCEPT ![j] = t]
    /\ hist' = [hist EXCEPT ![j] = @ \cup {Snapshot(t)}]

Task(j) == processing_tasks[j]

NoLocals ==
    [fps |-> 0, total_frames |-> 0, frame_skip |-> 0, frame_count |-> 0,
     extracted_count |-> 0, progress |-> 0, exc |-> None]

IdlePoll ==
    [pc |-> "idle", job |-> "j1", after |-> FALSE, code |-> 0,
     snap |-> Snapshot(NewTask)]

\* The download handler before any request: nothing seen, nothing returned.
\* seen: the status found at line 265; archive: the files of the answer;
\* first, earlier: the archive of the first 200 answer, once there is one;
\* again: a later 200 answer has been sent too.
IdleDownload ==
    [pc |-> "idle", job |-> "j1", seen |-> "absent", code |-> 0,
     archive |-> <<>>, earlier |-> FALSE, first |-> <<>>, again |-> FALSE]

\* No frame in the resize step.
NoImage ==
    [pc |-> "idle", frame |-> <<0, 0>>, target_width |-> 0, width |-> 0, height |-> 0]

Init ==
    /\ processing_tasks = [j \in Jobs |-> NoTask]
    /\ uploads = {}
    /\ outputs = [j \in Jobs |-> <<>>]
    /\ spc = [j \in Jobs |-> "idle"]
    /\ req = [j \in Jobs |-> NoRequest]
    /\ response = [j \in Jobs |-> 0]
    /\ wpc = [j \in Jobs |-> "idle"]
    /\ cap = [j \in Jobs |-> "none"]
    /\ loc = [j \in Jobs |-> NoLocals]
    /\ poll = IdlePoll
    /\ hist = [j \in Jobs |-> {}]
    /\ dl = IdleDownload
    /\ img = NoImage

\* ------------------------------------------------- process(): submit handler
\* Lines 158-178: the checks made before anything is stored.  A rejected
\* request is answered 400 (500 when a number does not parse) and the handler
\* ends.
ValidateRequest(j) ==
    /\ spc[j] = "idle"
    /\ \E r \in Requests :
          /\ req' = [req EXCEPT ![j] = r]
          /\ IF Validation(r) # 0
             THEN /\ response' = [response EXCEPT ![j] = Validation(r)]
                  /\ spc' = [spc EXCEPT ![j] = "done"]
             ELSE /\ response' = response
                  /\ spc' = [spc EXCEPT ![j] = "L187"]
    /\ UNCHANGED <<processing_tasks, uploads, outputs, wpc, cap, loc, poll, hist, dl, img>>

\* Mutant: the worker thread is started as soon as the upload is saved,
\* before the registry entry exists.
SaveUploadStartsWorker(j) ==
    /\ spc[j] = "L187"
    /\ uploads' = uploads \cup {j}
    /\ wpc' = [wpc EXCEPT ![j] = "L45"]
    /\ spc' = [spc EXCEPT ![j] = "L197"]
    /\ UNCHANGED <<processing_tasks, outputs, req, response, cap, loc, poll, hist, dl, img>>

\* Lines 181-187: file.save(video_path).  A fault is caught at line 214 and
\* answered 500.
SaveUpload(j) ==
    /\ spc[j] = "L187"
    /\ \/ /\ uploads' = uploads \cup {j}
          /\ spc' = [spc EXCEPT ![j] = "L197"]
          /\ response' = response
       \/ /\ uploads' = uploads
          /\ spc' = [spc EXCEPT ![j] = "done"]
          /\ response' = [response EXCEPT ![j] = 500]
    /\ UNCHANGED <<processing_tasks, outputs, req, wpc, cap, loc, poll, hist, dl, img>>

\* Mutant: the registry entry is not created.
RegisterTaskOmitted(j) ==
    /\ spc[j] = "L197"
    /\ spc' = [spc EXCEPT ![j] = "L209"]
    /\ UNCHANGED <<processing_tasks, uploads, outputs, req, response, wpc, cap, loc, poll, hist, dl, img>>

\* Lines 190-206: processing_tasks[video_id] = {...}.
RegisterTask(j) ==
    /\ spc[j] = "L197"
    /\ SetTask(j, NewTask)
    /\ spc' = [spc EXCEPT ![j] = "L209"]
    /\ UNCHANGED <<uploads, outputs, req, response, wpc, cap, loc, poll, dl, img>>

\* Lines 209-210: threading.Thread(target=process_video, ...).start().
StartThread(j) ==
    /\ spc[j] = "L209"
    /\ wpc' = [wpc EXCEPT ![j] = "L45"]
    /\ spc' = [spc EXCEPT ![j] = "L212"]
    /\ UNCHANGED <<processing_tasks, uploads, outputs, req, response, cap, loc, poll, hist, dl, img>>

\* Line 212: the 202 answer carrying the job id.
ReturnAccepted(j) ==
    /\ spc[j] = "L212"
    /\ response' = [response EXCEPT ![j] = 202]
    /\ spc' = [spc EXCEPT ![j] = "done"]
    /\ UNCHANGED <<processing_tasks, uploads, outputs, req, wpc, cap, loc, poll, hist, dl, img>>

\* ------------------------------------------- process_video(): worker thread
Goto(j, label) == wpc' = [wpc EXCEPT ![j] = label]

\* Mutant: the exception is caught inside the loop, which goes on with the
\* next frame.
RaiseAndContinue(j, cause) ==
    /\ loc' = [loc EXCEPT ![j].exc = cause, ![j].frame_count = @ + 1]
    /\ Goto(j, "L74")

\* An exception raised inside the try block: control goes to line 140.
Raise(j, cause) ==
    /\ loc' = [loc EXCEPT ![j].exc = cause]
    /\ Goto(j, "L142")

\* Line 45: task = processing_tasks[video_id], outside the try block.  A
\* missing entry raises KeyError and the thread dies.
LookupTask(j) ==
    /\ wpc[j] = "L45"
    /\ IF Task(j) = NoTask THEN Goto(j, "crashed") ELSE Goto(j, "L48")
    /\ UNCHANGED <<processing_tasks, uploads, outputs, spc, req, response, cap, loc, poll, hist, dl, img>>

\* Mutant: line 48 left out, the status stays pending.
StartProcessingOmitted(j) ==
    /\ wpc[j] = "L48"
    /\ Goto(j, "L49")
    /\ UNCHANGED <<processing_tasks, uploads, outputs, spc, req, response, cap, loc, poll, hist, dl, img>>

\* Line 48: task['status'] = 'processing'.
StartProcessing(j) ==
    /\ wpc[j] = "L48"
    /\ SetTask(j, [Task(j) EXCEPT !.status = "processing"])
    /\ Goto(j, "L49")
    /\ UNCHANGED <<uploads, outputs, spc, req, response, cap, loc, poll, dl, img>>

\* Line 49.
SetInitMessage(j) ==
    /\ wpc[j] = "L49"
    /\ SetTask(j, [Task(j) EXCEPT !.message = MsgInit])
    /\ Goto(j, "L52")
    /\ UNCHANGED <<uploads, outputs, spc, req, response, cap, loc, poll, dl, img>>

\* Line 61: frame_skip = max(1, int(fps * interval_sec)); interval is in half
\* seconds and fps is a whole number, so fps * interval_sec = fps * interval / 2.
FrameSkip(fps, interval) ==
    LET n == (fps * interval) \div 2 IN IF n > 1 THEN n ELSE 1

\* Lines 52-61: open the source, read fps and the frame count it reports.
\* A source that does not open raises at line 54.
OpenSource(j) ==
    /\ wpc[j] = "L52"
    /\ \/ /\ cap' = [cap EXCEPT ![j] = "closed"]
          /\ Raise(j, "open")
       \/ \E total \in 0..MaxTotal, fps \in 0..MaxFps :
             /\ cap' = [cap EXCEPT ![j] = "opened"]
             /\ loc' = [loc EXCEPT ![j].fps = fps,
                                   ![j].total_frames = total,
                                   ![j].frame_skip = FrameSkip(fps, req[j].interval)]
             /\ Goto(j, "L63")
    /\ UNCHANGED <<processing_tasks, uploads, outputs, spc, req, response, poll, hist, dl, img>>

\* Line 63.
SetTotalFrames(j) ==
    /\ wpc[j] = "L63"
    /\ SetTask(j, [Task(j) EXCEPT !.total_frames = loc[j].total_frames])
    /\ Goto(j, "L64")
    /\ UNCHANGED <<uploads, outputs, spc, req, response, cap, loc, poll, dl, img>>

\* Line 64.
SetVideoMessage(j) ==
    /\ wpc[j] = "L64"
    /\ SetTask(j, [Task(j) EXCEPT
                     !.message = MsgVideo(loc[j].total_frames, loc[j].frame_skip)])
    /\ Goto(j, "L68")
    /\ UNCHANGED <<uploads, outputs, spc, req, response, cap, loc, poll, dl, img>>

\* Lines 67-72: os.makedirs(output_dir) may raise; task['output_dir'] gets
\* the value it already has; the two counters start at 0.
MakeOutputDir(j) ==
    /\ wpc[j] = "L68"
    /\ \/ /\ loc' = [loc EXCEPT ![j].frame_count = 0, ![j].extracted_count = 0]
          /\ Goto(j, "L74")
       \/ Raise(j, "makedirs")
    /\ UNCHANGED <<processing_tasks, uploads, outputs, spc, req, response, cap, poll, hist, dl, img>>

\* Lines 74-78: cap.read().  The source delivers a frame, or reports its end
\* (ret is False, break), or the decoder raises.
ReadFrame(j) ==
    /\ wpc[j] = "L74"
    /\ cap[j] = "opened"
    /\ \/ /\ loc[j].frame_count < MaxFrames
          /\ Goto(j, "L81")
          /\ loc' = loc
       \/ /\ Goto(j, "L132")
          /\ loc' = loc
       \/ Raise(j, "decode")
    /\ UNCHANGED <<processing_tasks, uploads, outputs, spc, req, response, cap, poll, hist, dl, img>>

\* Line 81: int((frame_count / total_frames) * 100).  The quotient and the
\* product are floating point; for every total_frames <= 12 and frame_count
\* <= 15 the truncated result equals the exact floor below.
Progress(frame_count, total_frames) == (frame_count * 100) \div total_frames

\* Lines 81-82: a zero total_frames raises ZeroDivisionError at line 81.
SetProgress(j) ==
    /\ wpc[j] = "L81"
    /\ IF loc[j].total_frames = 0
       THEN /\ Raise(j, "zerodiv")
            /\ UNCHANGED <<processing_tasks, hist>>
       ELSE LET p == Progress(loc[j].frame_count, loc[j].total_frames)
            IN  /\ SetTask(j, [Task(j) EXCEPT !.progress = p])
                /\ loc' = [loc EXCEPT ![j].progress = p]
                /\ Goto(j, "L83")
    /\ UNCHANGED <<uploads, outputs, spc, req, response, cap, poll, dl, img>>

\* Mutant: frames_count counts the frames read, not the frames written.
SetFramesCountRead(j) ==
    /\ wpc[j] = "L83"
    /\ SetTask(j, [Task(j) EXCEPT !.frames_count = loc[j].frame_count])
    /\ Goto(j, "L84")
    /\ UNCHANGED <<uploads, outputs, spc, req, response, cap, loc, poll, dl, img>>

\* Line 83.
SetFramesCount(j) ==
    /\ wpc[j] = "L83"
    /\ SetTask(j, [Task(j) EXCEPT !.frames_count = loc[j].extracted_count])
    /\ Goto(j, "L84")
    /\ UNCHANGED <<uploads, outputs, spc, req, response, cap, loc, poll, dl, img>>

\* Line 84.
SetExtractMessage(j) ==
    /\ wpc[j] = "L84"
    /\ SetTask(j, [Task(j) EXCEPT
                     !.message = MsgExtract(loc[j].extracted_count, loc[j].progress)])
    /\ Goto(j, "L87")
    /\ UNCHANGED <<uploads, outputs, spc, req, response, cap, loc, poll, dl, img>>

\* Mutant: the sampling test is off by one frame.
SampledOffByOne(frame_count, frame_skip) == (frame_count + 1) % frame_skip = 0

\* Line 87: the frame is sampled iff frame_count % frame_skip == 0.
Sampled(frame_count, frame_skip) == frame_count % frame_skip = 0

\* Lines 87, 130: a frame that is not sampled is dropped.
SkipFrame(j) ==
    /\ wpc[j] = "L87"
    /\ ~Sampled(loc[j].frame_count, loc[j].frame_skip)
    /\ loc' = [loc EXCEPT ![j].frame_count = @ + 1]
    /\ Goto(j, "L74")
    /\ UNCHANGED <<processing_tasks, uploads, outputs, spc, req, response, cap, poll, hist, dl, img>>

\* Lines 87-108: sharpen, resize, colour conversion, background removal of a
\* sampled frame; any of them may raise.
TransformFrame(j) ==
    /\ wpc[j] = "L87"
    /\ Sampled(loc[j].frame_count, loc[j].frame_skip)
    /\ \/ /\ Goto(j, "L112")
          /\ loc' = loc
       \/ Raise(j, "transform")
    /\ UNCHANGED <<processing_tasks, uploads, outputs, spc, req, response, cap, poll, hist, dl, img>>

\* The file written for a sampled frame: frame_{extracted_count:05d}.{format},
\* holding the processed raw frame.
OutputFile(extracted_count, format, frame_count) ==
    [index |-> extracted_count, format |-> format, frame |-> frame_count]

\* Lines 110-130: save the image (may raise), then count it.
WriteFrame(j) ==
    /\ wpc[j] = "L112"
    /\ \/ /\ outputs' = [outputs EXCEPT ![j] =
                 Append(@, OutputFile(loc[j].extracted_count,
                                      Lower(req[j].output_format),
                                      loc[j].frame_count))]
          /\ loc' = [loc EXCEPT ![j].extracted_count = @ + 1,
                                ![j].frame_count = @ + 1]
          /\ Goto(j, "L74")
       \/ /\ outputs' = outputs
          /\ Raise(j, "write")
    /\ UNCHANGED <<processing_tasks, uploads, spc, req, response, cap, poll, hist, dl, img>>

\* Line 132: cap.release(), reached only when the loop ends by break.
ReleaseSource(j) ==
    /\ wpc[j] = "L132"
    /\ cap' = [cap EXCEPT ![j] = "released"]
    /\ Goto(j, "L135")
    /\ UNCHANGED <<processing_tasks, uploads, outputs, spc, req, response, loc, poll, hist, dl, img>>

\* Line 135.
SetFinalProgress(j) ==
    /\ wpc[j] = "L135"
    /\ SetTask(j, [Task(j) EXCEPT !.progress = 100])
    /\ Goto(j, "L136")
    /\ UNCHANGED <<uploads, outputs, spc, req, response, cap, loc, poll, dl, img>>

\* Line 136.
SetFinalFramesCount(j) ==
    /\ wpc[j] = "L136"
    /\ SetTask(j, [Task(j) EXCEPT !.frames_count = loc[j].extracted_count])
    /\ Goto(j, "L137")
    /\ UNCHANGED <<uploads, outputs, spc, req, response, cap, loc, poll, dl, img>>

\* Line 137.
SetCompleted(j) ==
    /\ wpc[j] = "L137"
    /\ SetTask(j, [Task(j) EXCEPT !.status = "completed"])
    /\ Goto(j, "L138")
    /\ UNCHANGED <<uploads, outputs, spc, req, response, cap, loc, poll, dl, img>>

\* Line 138; the try block ends and control goes to finally.
SetDoneMessage(j) ==
    /\ wpc[j] = "L138"
    /\ SetTask(j, [Task(j) EXCEPT !.message = MsgDone(loc[j].extracted_count)])
    /\ Goto(j, "L149")
    /\ UNCHANGED <<uploads, outputs, spc, req, response, cap, loc, poll, dl, img>>

\* Lines 140-142: except Exception: task['status'] = 'error'.
SetError(j) ==
    /\ wpc[j] = "L142"
    /\ SetTask(j, [Task(j) EXCEPT !.status = "error"])
    /\ Goto(j, "L143")
    /\ UNCHANGED <<uploads, outputs, spc, req, response, cap, loc, poll, dl, img>>

\* Line 143.
SetErrorMessage(j) ==
    /\ wpc[j] = "L143"
    /\ SetTask(j, [Task(j) EXCEPT !.error_message = loc[j].exc])
    /\ Goto(j, "L144")
    /\ UNCHANGED <<uploads, outputs, spc, req, response, cap, loc, poll, dl, img>>

\* Lines 144-145; control goes to finally.
SetErrorText(j) ==
    /\ wpc[j] = "L144"
    /\ SetTask(j, [Task(j) EXCEPT !.message = MsgError(loc[j].exc)])
    /\ Goto(j, "L149")
    /\ UNCHANGED <<uploads, outputs, spc, req, response, cap, loc, poll, dl, img>>

\* Mutant: the upload path does not carry the job id, so the files of all
\* jobs share it and removing it removes them all.
RemoveUploadSharedPath(j) ==
    /\ wpc[j] = "L149"
    /\ uploads' = {}
    /\ Goto(j, "L153")
    /\ UNCHANGED <<processing_tasks, outputs, spc, req, response, cap, loc, poll, hist, dl, img>>

\* Lines 147-150: finally: remove the uploaded file if it exists.
RemoveUpload(j) ==
    /\ wpc[j] = "L149"
    /\ uploads' = uploads \ {j}
    /\ Goto(j, "L153")
    /\ UNCHANGED <<processing_tasks, outputs, spc, req, response, cap, loc, poll, hist, dl, img>>

\* Lines 153-154: if task['progress'] < 100: task['progress'] = 100.
ForceProgress(j) ==
    /\ wpc[j] = "L153"
    /\ IF Task(j).progress < 100
       THEN SetTask(j, [Task(j) EXCEPT !.progress = 100])
       ELSE UNCHANGED <<processing_tasks, hist>>
    /\ Goto(j, "done")
    /\ UNCHANGED <<uploads, outputs, spc, req, response, cap, loc, poll, dl, img>>

Worker(j) ==
    \/ LookupTask(j) \/ StartProcessing(j) \/ SetInitMessage(j)
    \/ OpenSource(j) \/ SetTotalFrames(j) \/ SetVideoMessage(j)
    \/ MakeOutputDir(j) \/ ReadFrame(j) \/ SetProgress(j)
    \/ SetFramesCount(j) \/ SetExtractMessage(j) \/ SkipFrame(j)
    \/ TransformFrame(j) \/ WriteFrame(j) \/ ReleaseSource(j)
    \/ SetFinalProgress(j) \/ SetFinalFramesCount(j) \/ SetCompleted(j)
    \/ SetDoneMessage(j) \/ SetError(j) \/ SetErrorMessage(j)
    \/ SetErrorText(j) \/ RemoveUpload(j) \/ ForceProgress(j)

Submit(j) ==
    \/ ValidateRequest(j) \/ SaveUpload(j) \/ RegisterTask(j)
    \/ StartThread(j) \/ ReturnAccepted(j)

\* --------------------------------------------------- progress(): poll handler
\* Lines 222-224: task = processing_tasks.get(video_id); 404 when there is no
\* entry.  after: the request was sent after process() answered 202 for j.
PollLookup(j) ==
    /\ poll.pc \in {"idle", "returned"}
    /\ IF Task(j) = NoTask
       THEN poll' = [IdlePoll EXCEPT !.pc = "returned", !.job = j, !.code = 404,
                                     !.after = (response[j] = 202)]
       ELSE poll' = [IdlePoll EXCEPT !.pc = "status", !.job = j,
                                     !.after = (response[j] = 202)]
    /\ UNCHANGED <<processing_tasks, uploads, outputs, spc, req, response, wpc, cap, loc, hist, dl, img>>

\* Lines 227-233: the answer is built by reading the five fields one after
\* the other from the live task dict.
PollReadStatus ==
    /\ poll.pc = "status"
    /\ poll' = [poll EXCEPT !.snap.status = Task(poll.job).status,
                            !.pc = "progress"]
    /\ UNCHANGED <<processing_tasks, uploads, outputs, spc, req, response, wpc, cap, loc, hist, dl, img>>

PollReadProgress ==
    /\ poll.pc = "progress"
    /\ poll' = [poll EXCEPT !.snap.progress = Task(poll.job).progress,
                            !.pc = "message"]
    /\ UNCHANGED <<processing_tasks, uploads, outputs, spc, req, response, wpc, cap, loc, hist, dl, img>>

\* task.get('message', 'En cours...')
PollReadMessage ==
    /\ poll.pc = "message"
    /\ poll' = [poll EXCEPT !.snap.message = Snapshot(Task(poll.job)).message,
                            !.pc = "frames_count"]
    /\ UNCHANGED <<processing_tasks, uploads, outputs, spc, req, response, wpc, cap, loc, hist, dl, img>>

PollReadFramesCount ==
    /\ poll.pc = "frames_count"
    /\ poll' = [poll EXCEPT !.snap.frames_count = Task(poll.job).frames_count,
                            !.pc = "total_frames"]
    /\ UNCHANGED <<processing_tasks, uploads, outputs, spc, req, response, wpc, cap, loc, hist, dl, img>>

\* The last field is read and the answer is returned with status 200.
PollReadTotalFrames ==
    /\ poll.pc = "total_frames"
    /\ poll' = [poll EXCEPT !.snap.total_frames = Task(poll.job).total_frames,
                            !.pc = "returned", !.code = 200]
    /\ UNCHANGED <<processing_tasks, uploads, outputs, spc, req, response, wpc, cap, loc, hist, dl, img>>

Poll(j) ==
    \/ PollLookup(j) \/ PollReadStatus \/ PollReadProgress
    \/ PollReadMessage \/ PollReadFramesCount \/ PollReadTotalFrames

\* ---------------------------------------------- download_zip(): the archive
\* Mutant: the test of serve_frame (line 254), which also accepts a job that
\* is still processing.
DownloadableWhileProcessing(t) ==
    t # NoTask /\ t.status \in {"processing", "completed"}

\* Line 265: the archive is built only for a task whose status is completed.
Downloadable(t) == t # NoTask /\ t.status = "completed"

\* Lines 264-266: look the task up and test its status; 404 unless completed.
DownloadLookup(j) ==
    /\ dl.pc \in {"idle", "returned"}
    /\ dl' = [dl EXCEPT !.job = j, !.seen = Task(j).status, !.archive = <<>>,
                        !.pc = IF Downloadable(Task(j)) THEN "zip" ELSE "returned",
                        !.code = IF Downloadable(Task(j)) THEN 0 ELSE 404]
    /\ UNCHANGED <<processing_tasks, uploads, outputs, spc, req, response, wpc, cap, loc, poll, hist, img>>

\* Lines 268-287: every file of the output directory goes into the archive,
\* which is sent with status 200.
DownloadZip ==
    /\ dl.pc = "zip"
    /\ dl' = [dl EXCEPT !.archive = outputs[dl.job], !.code = 200,
                        !.pc = "returned", !.earlier = TRUE,
                        !.again = dl.earlier,
                        !.first = IF dl.earlier THEN dl.first
                                  ELSE outputs[dl.job]]
    /\ UNCHANGED <<processing_tasks, uploads, outputs, spc, req, response, wpc, cap, loc, poll, hist, img>>

Download(j) == DownloadLookup(j) \/ DownloadZip

\* --------------------------------------------------------- specifications
\* Spec: one client submits a request, its worker runs, and the client polls
\* the job while it runs.
Watched == {"j1"}

Next == \E j \in Watched : Submit(j) \/ Worker(j) \/ Poll(j)

Spec == Init /\ [][Next]_vars

\* SpecDownload: one client submits a request and asks for the archive of the
\* job at any time, before, while and after its worker runs.
NextDownload == \E j \in Watched : Submit(j) \/ Worker(j) \/ Download(j)

SpecDownload == Init /\ [][NextDownload]_vars

\* ---- the resize step of a sampled frame (lines 93-100) ----

\* A frame as the step sees it: frame is its shape <<width, height>>.
Frame(w, h, t) ==
    [pc |-> "L94", frame |-> <<w, h>>, target_width |-> t, width |-> 0, height |-> 0]

\* The frames the step is tried on: every shape and target width up to
\* MaxDim, and a 1000x600 and a 400x300 frame with target width 500.
ResizeInputs ==
    { Frame(w, h, t) : w \in 1..MaxDim, h \in 1..MaxDim, t \in 1..MaxDim }
        \cup { Frame(1000, 600, 500), Frame(400, 300, 500) }

\* int(height * (target_width / width)), lines 98-99: int() drops the
\* fraction of the product.  On the frames of ResizeInputs the double
\* precision product truncates to the same integer as the exact quotient.
target_height(height, width, tw) == (height * tw) \div width

\* Lines 94-95: the target width and the frame's shape are read.
ReadShape ==
    /\ img.pc = "L94"
    /\ img' = [img EXCEPT !.width = img.frame[1], !.height = img.frame[2], !.pc = "L97"]
    /\ UNCHANGED <<processing_tasks, uploads, outputs, spc, req, response,
                   wpc, cap, loc, poll, hist, dl>>

\* Lines 97-100: a frame wider than the target is replaced by its resized
\* copy; any other frame is left as it is.  cv2.resize raises when asked for
\* an image of height 0, and the frame is then not replaced.
ResizeFrame ==
    /\ img.pc = "L97"
    /\ LET th == target_height(img.height, img.width, img.target_width)
       IN  img' = IF img.width <= img.target_width
                  THEN [img EXCEPT !.pc = "L103"]
                  ELSE IF th = 0
                       THEN [img EXCEPT !.pc = "raised"]
                       ELSE [img EXCEPT !.frame = <<img.target_width, th>>,
                                        !.pc = "L103"]
    /\ UNCHANGED <<processing_tasks, uploads, outputs, spc, req, response,
                   wpc, cap, loc, poll, hist, dl>>

\* SpecResize: the resize step applied to each frame of ResizeInputs.
InitResize ==
    /\ processing_tasks = [j \in Jobs |-> NoTask]
    /\ uploads = {}
    /\ outputs = [j \in Jobs |-> <<>>]
    /\ spc = [j \in Jobs |-> "idle"]
    /\ req = [j \in Jobs |-> NoRequest]
    /\ response = [j \in Jobs |-> 0]
    /\ wpc = [j \in Jobs |-> "idle"]
    /\ cap = [j \in Jobs |-> "none"]
    /\ loc = [j \in Jobs |-> NoLocals]
    /\ poll = IdlePoll
    /\ hist = [j \in Jobs |-> {}]
    /\ dl = IdleDownload
    /\ img \in ResizeInputs

NextResize == ReadShape \/ ResizeFrame

SpecResize == InitResize /\ [][NextResize]_vars

\* One client's submission and its worker.
NextRun == \E j \in Watched : Submit(j) \/ Worker(j)

\* SpecJobs: several clients submit at once and their workers run side by
\* side, every step of one interleaved with every step of the others.  The
\* clients send requests of JobRequests; each source reports MaxFps frames
\* per second and 0 or MaxTotal frames, and delivers at most MaxJobFrames
\* frames.
JobRequests ==
    InvalidRequests \cup { Request(TRUE, <<"a", ".", "mp4">>, 512, 2, "png", FALSE) }

JobStep(j) ==
    /\ Submit(j) \/ Worker(j)
    /\ req'[j] \in JobRequests \cup {NoRequest}
    /\ cap'[j] = "opened" =>
          loc'[j].fps = MaxFps /\ loc'[j].total_frames \in {0, MaxTotal}
    /\ wpc'[j] = "L81" => loc'[j].frame_count < MaxJobFrames

NextJobs == \E j \in Jobs : JobStep(j)

SpecJobs == Init /\ [][NextJobs]_vars

\* SpecRun: one client's submission and its worker, without fairness.
SpecRun == Init /\ [][NextRun]_vars

\* SpecFair: the same, with a worker thread that, once started, is scheduled
\* again and again until it ends (the interpreter's thread switching lets
\* every runnable thread run).
SpecFair == Init /\ [][NextRun]_vars /\ \A j \in Watched : WF_vars(Worker(j))

\* ================================================================= claims
Terminal == {"completed", "error"}

Registered(j) == processing_tasks[j] # NoTask

\* The raw frame indices of the files in job j's output directory.
WrittenFrames(j) == { outputs[j][k].frame : k \in 1..Len(outputs[j]) }

\* C1: the status of every job only moves forward, one step at a time:
\* (no entry) -> pending -> processing -> completed or error, and a terminal
\* status never changes.
StatusForwardOnly ==
    [][\A j \in Jobs :
          \/ processing_tasks'[j].status = processing_tasks[j].status
          \/ <<processing_tasks[j].status, processing_tasks'[j].status>> \in
                { <<"absent", "pending">>, <<"pending", "processing">>,
                  <<"processing", "completed">>, <<"processing", "error">> }]_vars

\* C1 witness: a worker that faulted inside the frame loop has ended, its
\* task in error.
StatusForwardWitness ==
    \E j \in Jobs : /\ wpc[j] = "done"
                    /\ processing_tasks[j].status = "error"
                    /\ loc[j].frame_count > 0

\* C2 (as claimed): whenever the status is completed or error, progress is 100.
TerminalProgressIs100 ==
    \A j \in Jobs :
       Registered(j) /\ processing_tasks[j].status \in Terminal
          => processing_tasks[j].progress = 100

\* C3 (as claimed): the progress of a task never decreases from one state to
\* the next.
ProgressNeverDecreases ==
    [][\A j \in Jobs :
          Registered(j) /\ processing_tasks'[j] # NoTask
             => processing_tasks'[j].progress >= processing_tasks[j].progress]_vars

\* C4 (as claimed): every answer of the poll handler is a combination of
\* field values the task held at one instant.
PollSnapshotWasHeld ==
    poll.pc = "returned" /\ poll.code = 200 => poll.snap \in hist[poll.job]

\* C5 (as claimed): whenever the status is completed or error, the uploaded
\* file is gone.
TerminalUploadGone ==
    \A j \in Jobs :
       Registered(j) /\ processing_tasks[j].status \in Terminal => j \notin uploads

\* C6 (as claimed): a worker that opened its frame source has released it
\* when it ends.
SourceReleasedAtEnd ==
    \A j \in Jobs : wpc[j] = "done" => cap[j] # "opened"

\* C7 (as claimed): a poll sent after the submit call returned finds the task
\* and reports pending or processing.
PollAfterSubmitNotTerminal ==
    poll.pc = "returned" /\ poll.after
       => poll.code = 200 /\ poll.snap.status \in {"pending", "processing"}

\* C7 (amended): a poll sent after the submit call returned finds the task
\* (never NotFound); it reports pending, processing, completed or error, and
\* completed or error only when the worker has written that status.
PollAfterSubmitFindsTask ==
    poll.pc = "returned" /\ poll.after
       => /\ poll.code = 200
          /\ poll.snap.status \in {"pending", "processing", "completed", "error"}
          /\ poll.snap.status \in Terminal
                => processing_tasks[poll.job].status = poll.snap.status

\* C7 witness: a poll sent after the 202 answer has returned a completed task.
PollAfterSubmitWitness ==
    /\ poll.pc = "returned" /\ poll.after /\ poll.code = 200
    /\ poll.snap.status = "completed"

\* C8 (as claimed): a source that reports total_frames = 0 never makes the
\* job fault on a division by zero.
ZeroTotalNoDivisionFault ==
    \A j \in Jobs :
       cap[j] = "opened" /\ loc[j].total_frames = 0 => loc[j].exc # "zerodiv"

\* The indices sampled from a 300-frame source at 30 frames per second with
\* an interval of 2.0 seconds (4 half seconds).
SampledOf300 == { i \in 0..299 : Sampled(i, FrameSkip(30, 4)) }

\* C9: with frame_skip = max(1, floor(fps * interval)), the files written are
\* exactly those of the raw frames read so far whose index is a multiple of
\* frame_skip, numbered in order; a completed job over N frames has written
\* ceil(N / frame_skip) files; fps 30, interval 2, N 300 gives the indices
\* 0, 60, 120, 180, 240.
SamplingExact ==
    /\ SampledOf300 = {0, 60, 120, 180, 240}
    /\ \A j \in Jobs :
          cap[j] # "none" /\ cap[j] # "closed" =>
             LET skip == loc[j].frame_skip
                 n == loc[j].frame_count
                 stride == (loc[j].fps * req[j].interval) \div 2
             IN  /\ skip = IF stride >= 1 THEN stride ELSE 1
                 /\ WrittenFrames(j) = { i \in 0..(n - 1) : i % skip = 0 }
                 /\ \A k \in 1..Len(outputs[j]) :
                       /\ outputs[j][k].index = k - 1
                       /\ outputs[j][k].frame = (k - 1) * skip
                 /\ processing_tasks[j].status = "completed"
                       => /\ Len(outputs[j]) = (n + skip - 1) \div skip
                          /\ processing_tasks[j].frames_count = Len(outputs[j])

\* C9 witness: a job completed over 3 frames with frame_skip 2 (frames 0, 2).
SamplingWitness ==
    \E j \in Jobs : /\ processing_tasks[j].status = "completed"
                    /\ loc[j].frame_count = 3
                    /\ loc[j].frame_skip = 2
                    /\ WrittenFrames(j) = {0, 2}

\* C10 (as claimed): in every state error_message is set if and only if the
\* status is error.
ErrorMessageIffError ==
    \A j \in Jobs :
       Registered(j) =>
          (processing_tasks[j].error_message # None
              <=> processing_tasks[j].status = "error")

\* C11: a download answers 404 when the job id is unknown or the status found
\* is pending, processing or error, and 200 with the archive only for a
\* completed task; the archive holds the job's output files; a download step
\* changes neither the registry nor any file; every 200 answer for the job
\* carries the same archive as the first one.
DownloadOnlyCompleted ==
    /\ [](dl.pc = "returned" =>
            /\ dl.seen \in {"absent", "pending", "processing", "error"}
                  => dl.code = 404 /\ dl.archive = <<>>
            /\ dl.seen = "completed"
                  => dl.code = 200 /\ dl.archive = outputs[dl.job]
            /\ dl.code \in {200, 404}
            /\ dl.code = 200 => dl.earlier /\ dl.archive = dl.first)
    /\ [][dl' # dl => UNCHANGED <<processing_tasks, outputs, uploads>>]_vars

\* C11 witness: a second download of a completed job with two output files
\* has returned.
DownloadWitness ==
    /\ dl.pc = "returned" /\ dl.code = 200 /\ dl.again
    /\ Len(dl.archive) = 2 /\ Len(dl.first) = 2
    /\ wpc[dl.job] = "done"

\* The defects the claim lists: no file, empty file name, disallowed
\* extension, unsupported output format, target_width <= 0 or interval <= 0
\* (the last two for numbers that parse).
InvalidSubmission(r) ==
    \/ ~r.has_file
    \/ r.filename = <<>>
    \/ ~allowed_file(r.filename)
    \/ Lower(r.output_format) \notin {"png", "jpg", "webp"}
    \/ r.parses /\ (r.target_width <= 0 \/ r.interval <= 0)

\* C12 (as claimed): the handler of an invalid submission answers 400 at once
\* and changes nothing: no registry entry, no upload file, no worker, no
\* output file.
InvalidRejectedWith400 ==
    [][\A j \in Jobs :
          spc[j] = "idle" /\ spc'[j] # "idle" /\ InvalidSubmission(req'[j])
             => /\ spc'[j] = "done"
                /\ response'[j] = 400
                /\ UNCHANGED <<processing_tasks, uploads, outputs, wpc>>]_vars

\* C13 (as claimed): every job whose worker has started eventually has a
\* terminal status, progress 100 and no upload file.
StartedJobEndsAt100 ==
    \A j \in Jobs :
       (wpc[j] = "L45") ~>
          (/\ processing_tasks[j].status \in Terminal
           /\ processing_tasks[j].progress = 100
           /\ j \notin uploads)

\* C14 (as claimed): once the progress of a task is 100, no step changes its
\* status, frames_count, message or error_message.
NoUpdateAfter100 ==
    [][\A j \in Jobs :
          Registered(j) /\ processing_tasks[j].progress = 100
             => /\ processing_tasks'[j].status = processing_tasks[j].status
                /\ processing_tasks'[j].frames_count = processing_tasks[j].frames_count
                /\ processing_tasks'[j].message = processing_tasks[j].message
                /\ processing_tasks'[j].error_message = processing_tasks[j].error_message]_vars

\* C15 (as claimed): the progress of every task is between 0 and 100.
ProgressInRange ==
    \A j \in Jobs :
       Registered(j) => processing_tasks[j].progress \in 0..100

\* C16: a step of the worker of one job leaves the task, the output files and
\* the upload file of every other job as they were; in particular the step
\* that puts one job in error changes no other job's status.
WorkersIsolated ==
    [][\A j \in Jobs :
          wpc[j] # "idle" /\ wpc'[j] # wpc[j]
             => \A k \in Jobs \ {j} :
                   /\ processing_tasks'[k] = processing_tasks[k]
                   /\ outputs'[k] = outputs[k]
                   /\ (k \in uploads') = (k \in uploads)]_vars

\* C16 witness: two jobs ran side by side; one ended in error while the other
\* still had its upload and was writing output files, and then completed.
WorkersIsolatedWitness ==
    \E j, k \in Jobs :
       /\ j # k
       /\ processing_tasks[j].status = "error" /\ wpc[j] = "done"
       /\ processing_tasks[k].status = "processing"
       /\ Len(outputs[k]) = 1 /\ k \in uploads

\* The positions of the worker inside the frame loop and at its normal end
\* (lines 74-138).
LoopLabels == {"L74", "L81", "L83", "L84", "L87", "L112",
               "L132", "L135", "L136", "L137", "L138"}

\* C17: once a fault has been raised in the worker of a job, the worker is
\* outside the frame loop for good: it reads no further frame and writes no
\* further output file.
FaultStopsProcessing ==
    /\ [](\A j \in Jobs : loc[j].exc # None => wpc[j] \notin LoopLabels)
    /\ [][\A j \in Jobs :
            loc[j].exc # None
               => /\ loc'[j].exc = loc[j].exc
                  /\ loc'[j].frame_count = loc[j].frame_count
                  /\ loc'[j].extracted_count = loc[j].extracted_count
                  /\ outputs'[j] = outputs[j]]_vars

\* C17 witness: a job faulted while writing its second sampled frame and has
\* ended with the one file it had written.
FaultStopsWitness ==
    \E j \in Jobs : /\ loc[j].exc = "write"
                    /\ wpc[j] = "done"
                    /\ Len(outputs[j]) = 1
                    /\ loc[j].frame_count > 0

\* C18: frames_count never decreases and never exceeds the number of output
\* files the worker has written; for a completed task it equals that number.
FramesCountIsWritten ==
    /\ [](\A j \in Jobs :
            Registered(j) =>
               /\ processing_tasks[j].frames_count <= Len(outputs[j])
               /\ processing_tasks[j].status = "completed"
                     => processing_tasks[j].frames_count = Len(outputs[j]))
    /\ [][\A j \in Jobs :
            Registered(j) =>
               processing_tasks'[j].frames_count >= processing_tasks[j].frames_count]_vars

\* C18 witness: a task completed with two files written, of three frames read.
FramesCountWitness ==
    \E j \in Jobs : /\ processing_tasks[j].status = "completed"
                    /\ processing_tasks[j].frames_count = 2
                    /\ Len(outputs[j]) = 2
                    /\ loc[j].frame_count = 3


\* C19: once the resize step is over, a frame no wider than target_width has
\* kept its shape, and a wider frame of width w and height h is target_width
\* wide and as high as the integer nearest to h * target_width / w.
ResizeRoundsToNearest ==
    img.pc = "L103" =>
        IF img.width <= img.target_width
        THEN img.frame = <<img.width, img.height>>
        ELSE /\ img.frame[1] = img.target_width
             /\ LET d == img.width * img.frame[2] - img.height * img.target_width
                IN  2 * d <= img.width /\ 2 * (0 - d) <= img.width


\* C20: a job's worker starts only while the job's registry entry exists
\* with status pending, it starts once, from the submission that is then
\* answered 202, and no refused submission starts one: a running worker
\* always has a registry entry and never fails to find its task.
WorkerStartsAfterRegistration ==
    /\ [](\A j \in Jobs :
            /\ wpc[j] # "idle" => processing_tasks[j] # NoTask /\ wpc[j] # "crashed"
            /\ response[j] \in {400, 500} => wpc[j] = "idle")
    /\ [][\A j \in Jobs :
            /\ (wpc[j] = "idle" /\ wpc'[j] # "idle") =>
                  /\ processing_tasks[j] # NoTask
                  /\ processing_tasks[j].status = "pending"
                  /\ wpc'[j] = "L45"
                  /\ spc[j] = "L209"
            /\ (wpc[j] # "idle" /\ wpc'[j] = "L45") => wpc[j] = "L45"
            /\ wpc[j] # "idle" => wpc'[j] # "idle"
            /\ response'[j] = 202 => wpc'[j] # "idle"]_vars

\* Two submissions were accepted and both workers run, each with its entry.
WorkerStartsWitness ==
    /\ response["j1"] = 202 /\ response["j2"] = 202
    /\ wpc["j1"] = "L48" /\ wpc["j2"] \notin {"idle", "done", "crashed"}
    /\ processing_tasks["j1"].status = "pending"
    /\ processing_tasks["j2"] # NoTask

====
